---- MODULE Spec2Model ----
(***************************************************************************)
(* Custody architecture of chia/wallet/puzzles/custody:                    *)
(* PuzzleWithRestrictions / MofN trees, their puzzle hashes, memos and     *)
(* m-of-n merkle proofs.                                                   *)
(*                                                                         *)
(* Values.  A CLVM Program is a tagged tuple:                              *)
(*   <<"int", n>>          the atom Program.to(n)   (n = 0 is nil)         *)
(*   <<"str", s>>          the atom Program.to(s)                          *)
(*   <<"b32", h>>          the 32 byte atom holding the hash h             *)
(*   <<"op", role, id, n>> a program supplied by a Puzzle implementation   *)
(*                         or a compiled .clsp module, not looked into     *)
(*   <<"cons", a, b>>      the pair (a . b)                                *)
(* A hash is a tagged tuple as well; sha256 is taken to be collision free, *)
(* so a hash is the term of what was hashed:                               *)
(*   <<"H1", atom>>        sha256(1 ++ atom)                               *)
(*   <<"H2", l, r>>        sha256(2 ++ l ++ r)                             *)
(*   <<"Hop", role, id, n>> tree hash of the program <<"op", role, id, n>> *)
(* Python objects are records; a raised exception is an Error record.      *)
(***************************************************************************)
EXTENDS Integers, Sequences, FiniteSets, TLC

VARIABLES tree, out

vars == <<tree, out>>

-----------------------------------------------------------------------------
(* Bounds of the model *)

MaxMembers == 4

MaxSize == 4

-----------------------------------------------------------------------------
(* Program and its conversions *)

IntAtom(n) == <<"int", n>>

Str(s) == <<"str", s>>

B32(h) == <<"b32", h>>

Op(role, id, n) == <<"op", role, id, n>>

Cons(a, b) == <<"cons", a, b>>

Nil == IntAtom(0)

Bool(b) == IF b THEN IntAtom(1) ELSE IntAtom(0)

IsAtom(p) == p[1] # "cons"

First(p) == p[2]

Rest(p) == p[3]

RECURSIVE ListP(_)
ListP(s) == IF s = <<>> THEN Nil ELSE Cons(Head(s), ListP(Tail(s)))

RECURSIVE AsIter(_)
AsIter(p) == IF IsAtom(p) THEN <<>> ELSE <<First(p)>> \o AsIter(Rest(p))

RECURSIVE FixedArgs(_)
FixedArgs(args) ==
    IF args = <<>> THEN IntAtom(1)
    ELSE ListP(<<IntAtom(4), Cons(IntAtom(1), Head(args)), FixedArgs(Tail(args))>>)

Curry(mod, args) == ListP(<<IntAtom(2), Cons(IntAtom(1), mod), FixedArgs(args)>>)

hash_an_atom(h) == <<"H1", B32(h)>>

hash_a_pair(l, r) == <<"H2", l, r>>

RECURSIVE TreeHashPrecalc(_, _)
TreeHashPrecalc(p, pre) ==
    IF p[1] = "cons" THEN <<"H2", TreeHashPrecalc(First(p), pre), TreeHashPrecalc(Rest(p), pre)>>
    ELSE IF p[1] = "op" THEN <<"Hop", p[2], p[3], p[4]>>
    ELSE IF p[1] = "b32" /\ p[2] \in pre THEN p[2]
    ELSE <<"H1", p>>

TreeHash(p) == TreeHashPrecalc(p, {})

-----------------------------------------------------------------------------
(* Module constants *)

MofN_MOD == Op("mod", "m_of_n.clsp", 0)

OneOfN_MOD == Op("mod", "1_of_n.clsp", 0)

RESTRICTION_MOD == Op("mod", "restrictions.clsp", 0)

RESTRICTION_MOD_HASH == TreeHash(RESTRICTION_MOD)

INDEX_WRAPPER == ListP(<<IntAtom(2), IntAtom(5), IntAtom(7)>>)

spec_namespace == "inner_puzzle_chip?"

Error(e) == [kind |-> "Error", err |-> e]

IsError(v) == "kind" \in DOMAIN v /\ v.kind = "Error"

ErrorP(e) == <<"error", e>>

IsErrorP(p) == p[1] = "error"

Range(s) == {s[i] : i \in DOMAIN s}

-----------------------------------------------------------------------------
(* Puzzle and Restriction implementations *)

NonceSensitive == {"B", "S"}

KnownNonce(id, nonce) == IF id \in NonceSensitive THEN nonce ELSE 0

KnownPuzzle(id) == [kind |-> "Known", id |-> id]

KnownRestriction(id, mnv) == [kind |-> "KnownR", id |-> id, mnv |-> mnv]

PuzzleHint(puzhash, memo) == [puzhash |-> puzhash, memo |-> memo]

UnknownPuzzle(hint) == [kind |-> "Unknown", hint |-> hint]

RestrictionHint(mnv, puzhash, memo) == [mnv |-> mnv, puzhash |-> puzhash, memo |-> memo]

UnknownRestriction(hint) == [kind |-> "UnknownR", hint |-> hint]

morpher_not_validator(r) == IF r.kind = "UnknownR" THEN r.hint.mnv ELSE r.mnv

ProvenSpend(puzzle_reveal, solution) == [puzzle_reveal |-> puzzle_reveal, solution |-> solution]

-----------------------------------------------------------------------------
(* MerkleTree of chia.wallet.util.merkle_tree *)

split_list(puzzle_hashes) ==
    LET mid_index == (Len(puzzle_hashes) + 1) \div 2
    IN  <<SubSeq(puzzle_hashes, 1, mid_index),
          SubSeq(puzzle_hashes, mid_index + 1, Len(puzzle_hashes))>>

RECURSIVE MerkleTree_root(_)
MerkleTree_root(puzzle_hashes) ==
    IF Len(puzzle_hashes) = 1 THEN hash_an_atom(puzzle_hashes[1])
    ELSE LET s == split_list(puzzle_hashes)
         IN  hash_a_pair(MerkleTree_root(s[1]), MerkleTree_root(s[2]))

calculate_root(nodes) == MerkleTree_root(nodes)

(* _proof: <<found, path bits, sibling hashes (leaf upwards), hash, depth>> *)
RECURSIVE MerkleTree_proof(_, _)
MerkleTree_proof(puzzle_hashes, searching_for) ==
    IF Len(puzzle_hashes) = 1
    THEN <<puzzle_hashes[1] = searching_for, 0, <<>>, hash_an_atom(puzzle_hashes[1]), 0>>
    ELSE LET s == split_list(puzzle_hashes)
             f == MerkleTree_proof(s[1], searching_for)
             r == MerkleTree_proof(s[2], searching_for)
             h == hash_a_pair(f[4], r[4])
         IN  IF f[1] THEN <<TRUE, f[2], Append(f[3], r[4]), h, f[5] + 1>>
             ELSE IF r[1] THEN <<TRUE, r[2] + 2 ^ r[5], Append(r[3], f[4]), h, r[5] + 1>>
             ELSE <<FALSE, 0, <<>>, h, 0>>

MerkleTree_generate_proof(nodes, leaf_reveal) ==
    LET proof == MerkleTree_proof(nodes, leaf_reveal)
    IN  IF proof[1] THEN <<"path", proof[2], proof[3]>> ELSE ErrorP("NotFound")

-----------------------------------------------------------------------------
(* MofNMerkleTree *)

RevealNode_swapped(spend_to_prove) ==
    Cons(Nil, Cons(spend_to_prove.solution, spend_to_prove.puzzle_reveal))

RevealNode(spend_to_prove) == Cons(Nil, Cons(spend_to_prove.puzzle_reveal, spend_to_prove.solution))

ProofLeaf_unhashed(puzzle_hash_, spends_to_prove) ==
    IF puzzle_hash_ \in DOMAIN spends_to_prove
    THEN RevealNode(spends_to_prove[puzzle_hash_])
    ELSE B32(puzzle_hash_)

ProofLeaf(puzzle_hash_, spends_to_prove) ==
    IF puzzle_hash_ \in DOMAIN spends_to_prove
    THEN RevealNode(spends_to_prove[puzzle_hash_])
    ELSE B32(hash_an_atom(puzzle_hash_))

ProofBranch_as_is(first_proof, rest_proof) == Cons(first_proof, rest_proof)

ProofBranch(first_proof, rest_proof) ==
    IF ~IsAtom(first_proof) \/ ~IsAtom(rest_proof)
    THEN Cons(first_proof, rest_proof)
    ELSE B32(hash_a_pair(first_proof[2], rest_proof[2]))

RECURSIVE m_of_n_proof(_, _)
m_of_n_proof(puzzle_hashes, spends_to_prove) ==
    IF Len(puzzle_hashes) = 1
    THEN ProofLeaf(puzzle_hashes[1], spends_to_prove)
    ELSE LET s == split_list(puzzle_hashes)
             first_proof == m_of_n_proof(s[1], spends_to_prove)
             rest_proof == m_of_n_proof(s[2], spends_to_prove)
         IN  ProofBranch(first_proof, rest_proof)

generate_m_of_n_proof(nodes, spends_to_prove) == m_of_n_proof(nodes, spends_to_prove)

-----------------------------------------------------------------------------
(* Puzzle hashes: Puzzle.puzzle_hash(nonce), MofN.puzzle_hash(nonce) and    *)
(* PuzzleWithRestrictions.puzzle_hash()                                     *)

MapSeq(F(_), s) == [i \in 1..Len(s) |-> F(s[i])]

IsMorpher(r) == morpher_not_validator(r)

IsValidator(r) == ~morpher_not_validator(r)

Known_puzzle(p, nonce) == Op("puzzle", p.id, KnownNonce(p.id, nonce))

Known_memo(p, nonce) == Op("memo", p.id, KnownNonce(p.id, nonce))

Known_puzzle_hash(p, nonce) == TreeHash(Known_puzzle(p, nonce))

Restriction_puzzle_hash(r, nonce) ==
    IF r.kind = "UnknownR" THEN r.hint.puzhash ELSE Known_puzzle_hash(r, nonce)

Restriction_memo(r, nonce) ==
    IF r.kind = "UnknownR" THEN r.hint.memo ELSE Known_memo(r, nonce)

MofN_puzzle_of_root_only(m, root) ==
    IF m > 1 THEN Curry(MofN_MOD, <<B32(root)>>)
    ELSE Curry(OneOfN_MOD, <<B32(root)>>)

MofN_puzzle_of(m, root) ==
    IF m > 1 THEN Curry(MofN_MOD, <<IntAtom(m), B32(root)>>)
    ELSE Curry(OneOfN_MOD, <<B32(root)>>)

IndexWrapHash(nonce, restricted_inner_puzzle_hash) ==
    TreeHashPrecalc(Curry(INDEX_WRAPPER, <<IntAtom(nonce), B32(restricted_inner_puzzle_hash)>>),
                    {restricted_inner_puzzle_hash})

RestrictionWrapHash(morpher_hashes, validator_hashes, inner_puzzle_hash) ==
    TreeHashPrecalc(
        Curry(B32(RESTRICTION_MOD_HASH),
              <<ListP(MapSeq(B32, morpher_hashes)), ListP(MapSeq(B32, validator_hashes)),
                B32(inner_puzzle_hash)>>),
        Range(morpher_hashes) \cup Range(validator_hashes)
            \cup {RESTRICTION_MOD_HASH, inner_puzzle_hash})

RECURSIVE puzzle_hash(_)
RECURSIVE Puzzle_puzzle_hash(_, _)
RECURSIVE merkle_nodes(_)

merkle_nodes(members) == [i \in 1..Len(members) |-> puzzle_hash(members[i])]

MofN_puzzle(self, nonce) == MofN_puzzle_of(self.m, calculate_root(merkle_nodes(self.members)))

MofN_puzzle_hash(self, nonce) == TreeHash(MofN_puzzle(self, nonce))

Puzzle_puzzle_hash(p, nonce) ==
    IF p.kind = "Unknown" THEN p.hint.puzhash
    ELSE IF p.kind = "MofN" THEN MofN_puzzle_hash(p, nonce)
    ELSE Known_puzzle_hash(p, nonce)

puzzle_hash_always_wrapped(self) ==
    LET inner_puzzle_hash == Puzzle_puzzle_hash(self.puzzle, self.nonce)
        H(r) == Restriction_puzzle_hash(r, self.nonce)
        morpher_hashes == MapSeq(H, SelectSeq(self.restrictions, IsMorpher))
        validator_hashes == MapSeq(H, SelectSeq(self.restrictions, IsValidator))
    IN  IndexWrapHash(self.nonce,
                      RestrictionWrapHash(morpher_hashes, validator_hashes, inner_puzzle_hash))

puzzle_hash(self) ==
    LET inner_puzzle_hash == Puzzle_puzzle_hash(self.puzzle, self.nonce)
        H(r) == Restriction_puzzle_hash(r, self.nonce)
        morpher_hashes == MapSeq(H, SelectSeq(self.restrictions, IsMorpher))
        validator_hashes == MapSeq(H, SelectSeq(self.restrictions, IsValidator))
        restricted_inner_puzzle_hash ==
            IF Len(self.restrictions) > 0
            THEN RestrictionWrapHash(morpher_hashes, validator_hashes, inner_puzzle_hash)
            ELSE inner_puzzle_hash
    IN  IndexWrapHash(self.nonce, restricted_inner_puzzle_hash)

-----------------------------------------------------------------------------
(* MofN *)

MofN_unchecked(m, members) == [kind |-> "MofN", m |-> m, members |-> members]

MofN(m, members) ==
    LET nodes == merkle_nodes(members)
    IN  IF Cardinality(Range(nodes)) # Len(nodes) THEN Error("DuplicateNodes")
        ELSE [kind |-> "MofN", m |-> m, members |-> members]

OneOfNProof(proof, proven_spend) ==
    ListP(<<Cons(IntAtom(proof[2]), ListP(MapSeq(B32, proof[3]))),
            proven_spend.puzzle_reveal, proven_spend.solution>>)

generate_proof_at_least(self, spends_to_prove) ==
    LET nodes == merkle_nodes(self.members)
    IN  IF Cardinality(DOMAIN spends_to_prove) < self.m THEN ErrorP("AssertionError")
        ELSE IF self.m > 1 THEN generate_m_of_n_proof(nodes, spends_to_prove)
        ELSE IF DOMAIN spends_to_prove = {} THEN ErrorP("IndexError")
        ELSE LET only_key == CHOOSE k \in DOMAIN spends_to_prove : TRUE
                 proof == MerkleTree_generate_proof(nodes, only_key)
             IN  IF IsErrorP(proof) THEN proof
                 ELSE OneOfNProof(proof, spends_to_prove[only_key])

generate_proof(self, spends_to_prove) ==
    LET nodes == merkle_nodes(self.members)
    IN  IF Cardinality(DOMAIN spends_to_prove) # self.m THEN ErrorP("AssertionError")
        ELSE IF self.m > 1 THEN generate_m_of_n_proof(nodes, spends_to_prove)
        ELSE IF DOMAIN spends_to_prove = {} THEN ErrorP("IndexError")
        ELSE LET only_key == CHOOSE k \in DOMAIN spends_to_prove : TRUE
                 proof == MerkleTree_generate_proof(nodes, only_key)
             IN  IF IsErrorP(proof) THEN proof
                 ELSE OneOfNProof(proof, spends_to_prove[only_key])

PuzzleWithRestrictions(nonce, restrictions, puzzle) ==
    [kind |-> "PuzzleWithRestrictions", nonce |-> nonce, restrictions |-> restrictions,
     puzzle |-> puzzle]

-----------------------------------------------------------------------------
(* Hints and memos *)

PuzzleHint_to_program(hint) == ListP(<<B32(hint.puzhash), hint.memo>>)

PuzzleHint_from_program(prog) ==
    LET items == AsIter(prog)
    IN  IF Len(items) # 2 THEN Error("ValueError")
        ELSE IF items[1][1] # "b32" THEN Error("ValueError")
        ELSE PuzzleHint(items[1][2], items[2])

RestrictionHint_to_program(hint) == ListP(<<Bool(hint.mnv), B32(hint.puzhash), hint.memo>>)

RestrictionHint_from_program_all_morphers(prog) ==
    LET items == AsIter(prog)
    IN  IF Len(items) # 3 THEN Error("ValueError")
        ELSE IF items[2][1] # "b32" THEN Error("ValueError")
        ELSE RestrictionHint(TRUE, items[2][2], items[3])

RestrictionHint_from_program(prog) ==
    LET items == AsIter(prog)
    IN  IF Len(items) # 3 THEN Error("ValueError")
        ELSE IF items[2][1] # "b32" THEN Error("ValueError")
        ELSE RestrictionHint(items[1] # Nil, items[2][2], items[3])

MofNHint(m, member_memos) == [m |-> m, member_memos |-> member_memos]

MofNHint_to_program(hint) == ListP(<<IntAtom(hint.m), ListP(hint.member_memos)>>)

(* as_int is applied to the atoms Program.to(int) produces *)
MofNHint_from_program(prog) ==
    LET items == AsIter(prog)
    IN  IF Len(items) # 2 THEN Error("ValueError")
        ELSE IF items[1][1] # "int" THEN Error("ValueError")
        ELSE MofNHint(items[1][2], AsIter(items[2]))

Puzzle_memo(p, nonce) == IF p.kind = "Unknown" THEN p.hint.memo ELSE Known_memo(p, nonce)

FirstError(s) == s[CHOOSE i \in DOMAIN s : IsError(s[i]) /\ \A j \in 1..(i - 1) : ~IsError(s[j])]

AnyError(s) == \E i \in DOMAIN s : IsError(s[i])

RECURSIVE memo(_)
memo(self) ==
    LET Hint(restriction) ==
            RestrictionHint(morpher_not_validator(restriction),
                            Restriction_puzzle_hash(restriction, self.nonce),
                            Restriction_memo(restriction, self.nonce))
        restriction_hints == MapSeq(Hint, self.restrictions)
        is_mofn == self.puzzle.kind = "MofN"
        puzzle_hint_prog ==
            IF is_mofn
            THEN MofNHint_to_program(MofNHint(self.puzzle.m, MapSeq(memo, self.puzzle.members)))
            ELSE PuzzleHint_to_program(PuzzleHint(Puzzle_puzzle_hash(self.puzzle, self.nonce),
                                                  Puzzle_memo(self.puzzle, self.nonce)))
    IN  Cons(Str(spec_namespace),
             ListP(<<IntAtom(self.nonce),
                     ListP(MapSeq(RestrictionHint_to_program, restriction_hints)),
                     IntAtom(IF is_mofn THEN 1 ELSE 0),
                     puzzle_hint_prog>>))

BelongsToSpec_any_pair(m) == ~IsAtom(m)

BelongsToSpec(m) == IF IsAtom(m) THEN FALSE ELSE First(m) = Str(spec_namespace)

RECURSIVE from_memo(_)
from_memo(m) ==
    IF ~BelongsToSpec(m) THEN Error("WrongSpec")
    ELSE LET items == AsIter(Rest(m))
         IN  IF Len(items) # 4 THEN Error("ValueError")
             ELSE LET nonce == items[1]
                      restriction_hints == MapSeq(RestrictionHint_from_program, AsIter(items[2]))
                      further_branching == items[3] # Nil
                      m_of_n_hint == MofNHint_from_program(items[4])
                      members == MapSeq(from_memo, m_of_n_hint.member_memos)
                      puzzle_hint == PuzzleHint_from_program(items[4])
                      puzzle ==
                          IF further_branching
                          THEN IF IsError(m_of_n_hint) THEN m_of_n_hint
                               ELSE IF AnyError(members) THEN FirstError(members)
                               ELSE MofN(m_of_n_hint.m, members)
                          ELSE IF IsError(puzzle_hint) THEN puzzle_hint
                               ELSE UnknownPuzzle(puzzle_hint)
                  IN  IF AnyError(restriction_hints) THEN FirstError(restriction_hints)
                      ELSE IF IsError(puzzle) THEN puzzle
                      ELSE IF nonce[1] # "int" THEN Error("ValueError")
                      ELSE PuzzleWithRestrictions(nonce[2],
                                                  MapSeq(UnknownRestriction, restriction_hints),
                                                  puzzle)

-----------------------------------------------------------------------------
(* fill_in_unknown_puzzles *)

RECURSIVE fill_in_unknown_puzzles(_, _)

(* the restrictions are looked up only when the puzzle was not *)
fill_in_unknown_puzzles_elif(self, puzzle_dict) ==
    LET New(restriction) ==
            IF restriction.kind = "UnknownR" /\ restriction.hint.puzhash \in DOMAIN puzzle_dict
            THEN puzzle_dict[restriction.hint.puzhash]
            ELSE restriction
        replaced == self.puzzle.kind = "Unknown" /\ self.puzzle.hint.puzhash \in DOMAIN puzzle_dict
        new_restrictions == IF replaced THEN self.restrictions ELSE MapSeq(New, self.restrictions)
        Fill(puz) == fill_in_unknown_puzzles(puz, puzzle_dict)
        members == MapSeq(Fill, self.puzzle.members)
        new_puzzle ==
            IF replaced THEN puzzle_dict[self.puzzle.hint.puzhash]
            ELSE IF self.puzzle.kind = "MofN"
            THEN IF AnyError(members) THEN FirstError(members)
                 ELSE MofN(self.puzzle.m, members)
            ELSE self.puzzle
    IN  IF IsError(new_puzzle) THEN new_puzzle
        ELSE PuzzleWithRestrictions(self.nonce, new_restrictions, new_puzzle)

(* the nonce is not carried over *)
fill_in_unknown_puzzles_nonce_dropped(self, puzzle_dict) ==
    LET New(restriction) ==
            IF restriction.kind = "UnknownR" /\ restriction.hint.puzhash \in DOMAIN puzzle_dict
            THEN puzzle_dict[restriction.hint.puzhash]
            ELSE restriction
        new_restrictions == MapSeq(New, self.restrictions)
        Fill(puz) == fill_in_unknown_puzzles(puz, puzzle_dict)
        members == MapSeq(Fill, self.puzzle.members)
        new_puzzle ==
            IF self.puzzle.kind = "Unknown" /\ self.puzzle.hint.puzhash \in DOMAIN puzzle_dict
            THEN puzzle_dict[self.puzzle.hint.puzhash]
            ELSE IF self.puzzle.kind = "MofN"
            THEN IF AnyError(members) THEN FirstError(members)
                 ELSE MofN(self.puzzle.m, members)
            ELSE self.puzzle
    IN  IF IsError(new_puzzle) THEN new_puzzle
        ELSE PuzzleWithRestrictions(0, new_restrictions, new_puzzle)

(* the members of an MofN are kept as they are *)
fill_in_unknown_puzzles_top_only(self, puzzle_dict) ==
    LET New(restriction) ==
            IF restriction.kind = "UnknownR" /\ restriction.hint.puzhash \in DOMAIN puzzle_dict
            THEN puzzle_dict[restriction.hint.puzhash]
            ELSE restriction
        new_restrictions == MapSeq(New, self.restrictions)
        new_puzzle ==
            IF self.puzzle.kind = "Unknown" /\ self.puzzle.hint.puzhash \in DOMAIN puzzle_dict
            THEN puzzle_dict[self.puzzle.hint.puzhash]
            ELSE self.puzzle
    IN  PuzzleWithRestrictions(self.nonce, new_restrictions, new_puzzle)

fill_in_unknown_puzzles(self, puzzle_dict) ==
    LET New(restriction) ==
            IF restriction.kind = "UnknownR" /\ restriction.hint.puzhash \in DOMAIN puzzle_dict
            THEN puzzle_dict[restriction.hint.puzhash]
            ELSE restriction
        new_restrictions == MapSeq(New, self.restrictions)
        Fill(puz) == fill_in_unknown_puzzles(puz, puzzle_dict)
        members == MapSeq(Fill, self.puzzle.members)
        new_puzzle ==
            IF self.puzzle.kind = "Unknown" /\ self.puzzle.hint.puzhash \in DOMAIN puzzle_dict
            THEN puzzle_dict[self.puzzle.hint.puzhash]
            ELSE IF self.puzzle.kind = "MofN"
            THEN IF AnyError(members) THEN FirstError(members)
                 ELSE MofN(self.puzzle.m, members)
            ELSE self.puzzle
    IN  IF IsError(new_puzzle) THEN new_puzzle
        ELSE PuzzleWithRestrictions(self.nonce, new_restrictions, new_puzzle)

-----------------------------------------------------------------------------
(* puzzle_reveal *)

(* Puzzle.puzzle(nonce), Restriction.puzzle(nonce) *)
Puzzle_puzzle(p, nonce) ==
    IF p.kind \in {"Unknown", "UnknownR"} THEN ErrorP("NotImplementedError")
    ELSE IF p.kind = "MofN" THEN MofN_puzzle(p, nonce)
    ELSE Known_puzzle(p, nonce)

AnyErrorP(s) == \E i \in DOMAIN s : IsErrorP(s[i])

(* the validators are curried in before the morphers *)
puzzle_reveal_validators_first(self) ==
    LET P(restriction) == Puzzle_puzzle(restriction, self.nonce)
        inner_puzzle == Puzzle_puzzle(self.puzzle, self.nonce)
        morphers == MapSeq(P, SelectSeq(self.restrictions, IsMorpher))
        validators == MapSeq(P, SelectSeq(self.restrictions, IsValidator))
        restricted_inner_puzzle ==
            IF Len(self.restrictions) > 0
            THEN Curry(RESTRICTION_MOD, <<ListP(validators), ListP(morphers), inner_puzzle>>)
            ELSE inner_puzzle
    IN  IF IsErrorP(inner_puzzle) THEN inner_puzzle
        ELSE IF AnyErrorP(morphers) \/ AnyErrorP(validators) THEN ErrorP("NotImplementedError")
        ELSE Curry(INDEX_WRAPPER, <<IntAtom(self.nonce), restricted_inner_puzzle>>)

puzzle_reveal(self) ==
    LET P(restriction) == Puzzle_puzzle(restriction, self.nonce)
        inner_puzzle == Puzzle_puzzle(self.puzzle, self.nonce)
        morphers == MapSeq(P, SelectSeq(self.restrictions, IsMorpher))
        validators == MapSeq(P, SelectSeq(self.restrictions, IsValidator))
        restricted_inner_puzzle ==
            IF Len(self.restrictions) > 0
            THEN Curry(RESTRICTION_MOD, <<ListP(morphers), ListP(validators), inner_puzzle>>)
            ELSE inner_puzzle
    IN  IF IsErrorP(inner_puzzle) THEN inner_puzzle
        ELSE IF AnyErrorP(morphers) \/ AnyErrorP(validators) THEN ErrorP("NotImplementedError")
        ELSE Curry(INDEX_WRAPPER, <<IntAtom(self.nonce), restricted_inner_puzzle>>)

-----------------------------------------------------------------------------
(* unknown_puzzles: a dict is a function on its keys *)

EmptyDict == [h \in {} |-> h]

(* {**first, **second}: the entry of second is kept under a key of both *)
Update(first, second) == second @@ first

(* {key: value for ...}: the last item of a key is kept *)
DictOf(items) ==
    [k \in {items[i][1] : i \in DOMAIN items} |->
        items[CHOOSE i \in DOMAIN items :
                 items[i][1] = k /\ \A j \in DOMAIN items : items[j][1] = k => j <= i][2]]

RECURSIVE UpdateAll(_)
UpdateAll(dicts) ==
    IF dicts = <<>> THEN EmptyDict
    ELSE Update(UpdateAll(SubSeq(dicts, 1, Len(dicts) - 1)), dicts[Len(dicts)])

IsUnknownRestriction(r) == r.kind = "UnknownR"

RECURSIVE unknown_puzzles(_)

(* the restrictions of a node are collected only beside a puzzle that is    *)
(* not an MofN                                                              *)
unknown_puzzles_leaf_restrictions(self) ==
    LET Item(ur) == <<ur.hint.puzhash, ur>>
        unknown_restrictions ==
            DictOf(MapSeq(Item, SelectSeq(self.restrictions, IsUnknownRestriction)))
    IN  IF self.puzzle.kind = "Unknown"
        THEN Update(DictOf(<<<<self.puzzle.hint.puzhash, self.puzzle>>>>), unknown_restrictions)
        ELSE IF self.puzzle.kind = "MofN"
        THEN UpdateAll(MapSeq(unknown_puzzles, self.puzzle.members))
        ELSE unknown_restrictions

unknown_puzzles(self) ==
    LET Item(ur) == <<ur.hint.puzhash, ur>>
        unknown_restrictions ==
            DictOf(MapSeq(Item, SelectSeq(self.restrictions, IsUnknownRestriction)))
        unknown_puzzles_ ==
            IF self.puzzle.kind = "Unknown"
            THEN DictOf(<<<<self.puzzle.hint.puzhash, self.puzzle>>>>)
            ELSE IF self.puzzle.kind = "MofN"
            THEN UpdateAll(MapSeq(unknown_puzzles, self.puzzle.members))
            ELSE EmptyDict
    IN  Update(unknown_puzzles_, unknown_restrictions)

-----------------------------------------------------------------------------
(* Inputs of the model *)

Nonces == {0, 7}

PuzzleIds == {"A", "B"}

SiblingIds == <<"C", "A", "B", "D", "E", "F">>

RestrictionIds == {"R", "S", "T", "U"}

MorpherIds == {"R", "T", "U"}

RestrictionChoices == {KnownRestriction(id, id \in MorpherIds) : id \in {"R", "S", "T"}}

WrapNonce(m) == IF m = 1 THEN 0 ELSE 7

Leaf(id) == PuzzleWithRestrictions(0, <<>>, KnownPuzzle(id))

Siblings(k) == [i \in 1..k |-> Leaf(SiblingIds[i])]

RECURSIVE Size(_)
RECURSIVE SumSizes(_)
SumSizes(members) == IF members = <<>> THEN 0 ELSE Size(Head(members)) + SumSizes(Tail(members))

Size(self) ==
    1 + Len(self.restrictions)
      + (IF self.puzzle.kind = "MofN" THEN SumSizes(self.puzzle.members) ELSE 0)

RECURSIVE AllKnown(_)
AllKnown(self) ==
    /\ \A i \in DOMAIN self.restrictions : self.restrictions[i].kind = "KnownR"
    /\ IF self.puzzle.kind = "MofN"
       THEN \A i \in DOMAIN self.puzzle.members : AllKnown(self.puzzle.members[i])
       ELSE self.puzzle.kind = "Known"

RECURSIVE AllUnknown(_)
AllUnknown(self) ==
    /\ \A i \in DOMAIN self.restrictions : self.restrictions[i].kind = "UnknownR"
    /\ IF self.puzzle.kind = "MofN"
       THEN \A i \in DOMAIN self.puzzle.members : AllUnknown(self.puzzle.members[i])
       ELSE self.puzzle.kind = "Unknown"

(* every MofN of the tree, at any depth *)
RECURSIVE MofNs(_)
MofNs(self) ==
    IF self.puzzle.kind = "MofN"
    THEN {self.puzzle} \cup UNION {MofNs(self.puzzle.members[i]) : i \in DOMAIN self.puzzle.members}
    ELSE {}

RECURSIVE UnknownKeys(_)
UnknownKeys(self) ==
    {self.restrictions[i].hint.puzhash :
        i \in {j \in DOMAIN self.restrictions : self.restrictions[j].kind = "UnknownR"}}
    \cup (IF self.puzzle.kind = "Unknown" THEN {self.puzzle.hint.puzhash}
          ELSE IF self.puzzle.kind = "MofN"
          THEN UNION {UnknownKeys(self.puzzle.members[i]) : i \in DOMAIN self.puzzle.members}
          ELSE {})

(* Dictionaries offered to fill_in_unknown_puzzles.  A key is the tree hash *)
(* <<"Hop", "puzzle", id, n>> of a known puzzle or restriction.             *)
IsRestrictionKey(h) == h[3] \in RestrictionIds

KnownFor(h) ==
    IF IsRestrictionKey(h) THEN KnownRestriction(h[3], h[3] \in MorpherIds)
    ELSE KnownPuzzle(h[3])

OtherFor(h) ==
    IF IsRestrictionKey(h) THEN KnownRestriction("U", ~(KnownFor(h).mnv))
    ELSE KnownPuzzle("C")

ChainKey(h) ==
    IF IsRestrictionKey(h) THEN Known_puzzle_hash(KnownRestriction("U", TRUE), 0)
    ELSE Known_puzzle_hash(KnownPuzzle("E"), 0)

UnknownFor(h) ==
    IF IsRestrictionKey(h)
    THEN UnknownRestriction(RestrictionHint(KnownFor(h).mnv, ChainKey(h), Nil))
    ELSE UnknownPuzzle(PuzzleHint(ChainKey(h), Nil))

Dictionaries(self) ==
    LET U == UnknownKeys(self)
    IN  {[h \in K |-> KnownFor(h)] : K \in {U} \cup {{k} : k \in U}}
        \cup {[h \in {k} |-> OtherFor(k)] : k \in U}
        \cup {[h \in {k, ChainKey(k)} |-> IF h = k THEN UnknownFor(k) ELSE KnownFor(h)] : k \in U}
        \cup {[h \in {k} |-> MofN(1, <<Leaf("E")>>)] : k \in {h \in U : ~IsRestrictionKey(h)}}
        \cup {[h \in {k, ChainKey(k)} |->
                   IF h = k THEN MofN(1, <<PuzzleWithRestrictions(0, <<>>, UnknownFor(k))>>)
                   ELSE KnownFor(h)] : k \in {h \in U : ~IsRestrictionKey(h)}}

(* Memos that do not belong to the spec: the memo of the member at `path`   *)
(* replaced by an atom, or its namespace tag replaced                       *)
RECURSIVE MemberPaths(_)
MemberPaths(self) ==
    {<<>>} \cup
    (IF self.puzzle.kind = "MofN"
     THEN UNION {{<<i>> \o q : q \in MemberPaths(self.puzzle.members[i])} :
                    i \in DOMAIN self.puzzle.members}
     ELSE {})

BadKinds == {"atom", "tag", "pair_tag"}

Bad(m, kind) ==
    CASE kind = "atom" -> Str(spec_namespace)
      [] kind = "tag" -> Cons(Str("inner_puzzle_chip"), Rest(m))
      [] kind = "pair_tag" -> Cons(Cons(Str(spec_namespace), Nil), Rest(m))

RECURSIVE ListSet(_, _, _)
ListSet(p, i, v) ==
    IF i = 1 THEN Cons(v, Rest(p)) ELSE Cons(First(p), ListSet(Rest(p), i - 1, v))

RECURSIVE CorruptAt(_, _, _)
CorruptAt(m, path, kind) ==
    IF path = <<>> THEN Bad(m, kind)
    ELSE LET body == Rest(m)
             hint == AsIter(body)[4]
             member_memos == AsIter(hint)[2]
             sub == AsIter(member_memos)[Head(path)]
             new == CorruptAt(sub, Tail(path), kind)
         IN  Cons(First(m),
                  ListSet(body, 4, ListSet(hint, 2, ListSet(member_memos, Head(path), new))))

RECURSIVE NodeAt(_, _)
NodeAt(self, path) ==
    IF path = <<>> THEN self ELSE NodeAt(self.puzzle.members[Head(path)], Tail(path))

LeafPaths(self) == {path \in MemberPaths(self) : NodeAt(self, path).puzzle.kind # "MofN"}

RECURSIVE WithPuzzle(_, _, _)
WithPuzzle(self, path, puzzle) ==
    IF path = <<>> THEN PuzzleWithRestrictions(self.nonce, self.restrictions, puzzle)
    ELSE PuzzleWithRestrictions(self.nonce, self.restrictions,
             [self.puzzle EXCEPT !.members[Head(path)] = WithPuzzle(@, Tail(path), puzzle)])

RECURSIVE RestrictionHashes(_)
RestrictionHashes(self) ==
    {Restriction_puzzle_hash(self.restrictions[i], self.nonce) : i \in DOMAIN self.restrictions}
    \cup (IF self.puzzle.kind = "MofN"
          THEN UNION {RestrictionHashes(self.puzzle.members[i]) : i \in DOMAIN self.puzzle.members}
          ELSE {})

-----------------------------------------------------------------------------
(* The life of a custody tree: built from known puzzles, written to a memo  *)
(* and read back, its unknown puzzles filled in from a dictionary           *)

Init ==
    /\ tree \in {PuzzleWithRestrictions(0, <<>>, KnownPuzzle("A")),
                 PuzzleWithRestrictions(7, <<>>, KnownPuzzle("B"))}
    /\ out = [op |-> "init"]

Building == out.op \in {"init", "PuzzleWithRestrictions", "MofN"}

AddRestriction(r) ==
    /\ Building
    /\ Size(tree) < MaxSize
    /\ tree' = PuzzleWithRestrictions(tree.nonce, Append(tree.restrictions, r), tree.puzzle)
    /\ out' = [op |-> "PuzzleWithRestrictions"]

(* MofN(m, members) around k siblings and the tree *)
Wrap(nonce, m, k) ==
    LET members == Append(Siblings(k), tree)
        puzzle == MofN(m, members)
    IN  /\ Building
        /\ Size(tree) + k + 1 <= MaxSize
        /\ out' = [op |-> "MofN", m |-> m, members |-> members, result |-> puzzle]
        /\ tree' = IF IsError(puzzle) THEN tree
                   ELSE PuzzleWithRestrictions(nonce, <<>>, puzzle)

RoundTrip ==
    LET m == memo(tree)
        result == from_memo(m)
    IN  /\ Building
        /\ out' = [op |-> "from_memo", input |-> "memo", source |-> tree, memo |-> m,
                   result |-> result, path |-> <<>>]
        /\ tree' = IF IsError(result) THEN tree ELSE result

Build ==
    \/ \E r \in RestrictionChoices : AddRestriction(r)
    \/ \E m \in 1..2, k \in 0..(MaxSize - 2) : Wrap(WrapNonce(m), m, k)

FromForeignMemo(path, kind) ==
    LET m == CorruptAt(memo(tree), path, kind)
    IN  /\ Building
        /\ out' = [op |-> "from_memo", input |-> "foreign", source |-> tree, memo |-> m,
                   result |-> from_memo(m), path |-> path]
        /\ tree' = tree

(* the memo of member i written in the place of member j's: such a memo is
   assembled by hand, no MofN that passed __post_init__ produces it *)
FromRepeatedMemo(i, j) ==
    LET ms == tree.puzzle.members
        twice == PuzzleWithRestrictions(tree.nonce, tree.restrictions,
                     [kind |-> "MofN", m |-> tree.puzzle.m,
                      members |-> [ms EXCEPT ![j] = ms[i]]])
        m == memo(twice)
    IN  /\ Building
        /\ i # j
        /\ out' = [op |-> "from_memo", input |-> "repeated", source |-> tree, memo |-> m,
                   result |-> from_memo(m), path |-> <<j>>]
        /\ tree' = tree

(* a memo whose puzzle hint at `path` carries the hash of a restriction of  *)
(* the tree                                                                 *)
FromCollidingMemo(path, puzhash) ==
    LET colliding == WithPuzzle(tree, path, UnknownPuzzle(PuzzleHint(puzhash, Nil)))
        m == memo(colliding)
        result == from_memo(m)
    IN  /\ Building
        /\ out' = [op |-> "from_memo", input |-> "colliding", source |-> tree, memo |-> m,
                   result |-> result, path |-> path]
        /\ tree' = IF IsError(result) THEN tree ELSE result

(* unknown_puzzles and puzzle_reveal read the tree *)
Queried == out.op \in {"unknown_puzzles", "puzzle_reveal"}

PuzzleReveal ==
    /\ ~Queried
    /\ out' = [op |-> "puzzle_reveal", source |-> tree, result |-> puzzle_reveal(tree)]
    /\ tree' = tree

UnknownPuzzles ==
    /\ ~Queried
    /\ out' = [op |-> "unknown_puzzles", source |-> tree, result |-> unknown_puzzles(tree)]
    /\ tree' = tree

FillIn(puzzle_dict, again) ==
    LET result == fill_in_unknown_puzzles(tree, puzzle_dict)
    IN  /\ out' = [op |-> "fill_in_unknown_puzzles", source |-> tree,
                   puzzle_dict |-> puzzle_dict, result |-> result, again |-> again]
        /\ tree' = IF IsError(result) THEN tree ELSE result

Decoded == out.op = "from_memo" /\ out.input = "memo" /\ ~IsError(out.result)

FillInAgain ==
    /\ out.op = "fill_in_unknown_puzzles"
    /\ ~out.again
    /\ ~IsError(out.result)
    /\ FillIn(out.puzzle_dict, TRUE)

Next ==
    \/ Build
    \/ RoundTrip
    \/ \E path \in MemberPaths(tree), kind \in BadKinds : FromForeignMemo(path, kind)
    \/ \E i, j \in 1..MaxSize :
          /\ tree.puzzle.kind = "MofN"
          /\ {i, j} \subseteq DOMAIN tree.puzzle.members
          /\ FromRepeatedMemo(i, j)
    \/ \E puzzle_dict \in Dictionaries(tree) : Decoded /\ FillIn(puzzle_dict, FALSE)
    \/ FillInAgain
    \/ \E path \in LeafPaths(tree), puzhash \in RestrictionHashes(tree) :
          FromCollidingMemo(path, puzhash)
    \/ UnknownPuzzles
    \/ PuzzleReveal

Spec == Init /\ [][Next]_vars

-----------------------------------------------------------------------------
(* One MofN and the proofs generate_proof gives for it *)

ProofPool ==
    <<Leaf("C"),
      PuzzleWithRestrictions(7, <<KnownRestriction("R", TRUE)>>, KnownPuzzle("B")),
      PuzzleWithRestrictions(0, <<>>,
          UnknownPuzzle(PuzzleHint(Known_puzzle_hash(KnownPuzzle("H"), 0), Nil))),
      PuzzleWithRestrictions(0, <<>>, MofN(1, <<Leaf("D")>>)),
      Leaf("E"), Leaf("F"), Leaf("G"), Leaf("I")>>

ForeignKey == puzzle_hash(Leaf("Z"))

MemberIndex(nodes, k) == IF \E i \in DOMAIN nodes : nodes[i] = k
                         THEN CHOOSE i \in DOMAIN nodes : nodes[i] = k ELSE 0

SpendFor(nodes, k) ==
    ProvenSpend(Op("reveal", "spend", MemberIndex(nodes, k)),
                Op("solution", "spend", MemberIndex(nodes, k)))

InitProof ==
    /\ tree \in {PuzzleWithRestrictions(0, <<>>, MofN(p[2], SubSeq(ProofPool, 1, p[1]))) :
                    p \in {q \in (1..MaxMembers) \X (0..MaxMembers) : q[2] <= q[1]}}
    /\ out = [op |-> "init"]

GenerateProof(keys) ==
    LET nodes == merkle_nodes(tree.puzzle.members)
        spends_to_prove == [k \in keys |-> SpendFor(nodes, k)]
    IN  /\ out' = [op |-> "generate_proof", spends_to_prove |-> spends_to_prove,
                   proof |-> generate_proof(tree.puzzle, spends_to_prove)]
        /\ tree' = tree

(* dataclasses.replace(self, m=m): the same members under another m *)
Replace(m) ==
    LET new == MofN(m, tree.puzzle.members)
    IN  /\ out' = [op |-> "replace",
                   m_before |-> tree.puzzle.m,
                   hash_before |-> MofN_puzzle_hash(tree.puzzle, tree.nonce),
                   m_after |-> m,
                   hash_after |-> MofN_puzzle_hash(new, tree.nonce)]
        /\ tree' = PuzzleWithRestrictions(tree.nonce, tree.restrictions, new)

NextProof ==
    \/ \E keys \in SUBSET (Range(merkle_nodes(tree.puzzle.members)) \cup {ForeignKey}) :
          GenerateProof(keys)
    \/ \E m \in 0..Len(tree.puzzle.members) : Replace(m)

SpecProof == InitProof /\ [][NextProof]_vars

-----------------------------------------------------------------------------
(* Properties *)

Distinct(seq) == \A i, j \in DOMAIN seq : i # j => seq[i] # seq[j]

RECURSIVE Depth(_)
Depth(self) ==
    IF self.puzzle.kind = "MofN"
    THEN LET ds == {Depth(self.puzzle.members[i]) : i \in DOMAIN self.puzzle.members}
         IN  1 + CHOOSE d \in ds : \A e \in ds : e <= d
    ELSE 0

(* C1: the memo of a tree of known puzzles reads back as a tree of the same *)
(* puzzle hash in which every puzzle is an UnknownPuzzle and every          *)
(* restriction an UnknownRestriction.                                       *)
C1_RoundTrip ==
    (out.op = "from_memo" /\ out.input = "memo" /\ AllKnown(out.source)) =>
        /\ ~IsError(out.result)
        /\ AllUnknown(out.result)
        /\ puzzle_hash(out.result) = puzzle_hash(out.source)

C1_Witness ==
    /\ out.op = "from_memo" /\ out.input = "memo" /\ AllKnown(out.source)
    /\ ~IsError(out.result)
    /\ Depth(out.source) = 2
    /\ \E i \in DOMAIN out.source.puzzle.members :
          \E j \in DOMAIN out.source.puzzle.members[i].restrictions :
             ~out.source.puzzle.members[i].restrictions[j].mnv

(* the hash a proof commits to: a reveal node stands for the leaf hash of   *)
(* the key its spend was supplied under, a hash atom for itself             *)
RECURSIVE FoldProof(_, _)
FoldProof(proof, spends) ==
    IF IsAtom(proof) THEN proof[2]
    ELSE IF First(proof) = Nil
    THEN hash_an_atom(CHOOSE k \in DOMAIN spends :
                        Rest(proof) = Cons(spends[k].puzzle_reveal, spends[k].solution))
    ELSE hash_a_pair(FoldProof(First(proof), spends), FoldProof(Rest(proof), spends))

RECURSIVE RevealNodes(_)
RevealNodes(proof) ==
    IF IsAtom(proof) THEN <<>>
    ELSE IF First(proof) = Nil THEN <<Rest(proof)>>
    ELSE RevealNodes(First(proof)) \o RevealNodes(Rest(proof))

Members == merkle_nodes(tree.puzzle.members)

Proven == DOMAIN out.spends_to_prove

MofNProof == out.op = "generate_proof" /\ tree.puzzle.m > 1 /\ ~IsErrorP(out.proof)

(* C2: for m > 1 and m distinct member hashes proven, the proof folds to    *)
(* the merkle root of the members.                                          *)
C2_ProofFoldsToRoot ==
    (out.op = "generate_proof" /\ tree.puzzle.m > 1
        /\ Proven \subseteq Range(Members) /\ Cardinality(Proven) = tree.puzzle.m) =>
        /\ ~IsErrorP(out.proof)
        /\ FoldProof(out.proof, out.spends_to_prove) = calculate_root(Members)

C2_Witness ==
    /\ MofNProof
    /\ Proven \subseteq Range(Members)
    /\ Len(Members) = 4 /\ tree.puzzle.m = 2
    /\ IsAtom(First(out.proof))

(* the proof of the members puzzle_hashes, a subtree of the halving split:  *)
(* a pair exactly when one of them is proven, a single hash atom otherwise; *)
(* one member alone is a reveal node only when it is proven                 *)
RECURSIVE MinimalProof(_, _, _)
MinimalProof(proof, puzzle_hashes, proven) ==
    IF Len(puzzle_hashes) = 1
    THEN IF puzzle_hashes[1] \in proven
         THEN ~IsAtom(proof) /\ First(proof) = Nil
         ELSE proof = B32(hash_an_atom(puzzle_hashes[1]))
    ELSE IF \E i \in DOMAIN puzzle_hashes : puzzle_hashes[i] \in proven
    THEN /\ ~IsAtom(proof)
         /\ First(proof) # Nil
         /\ MinimalProof(First(proof), split_list(puzzle_hashes)[1], proven)
         /\ MinimalProof(Rest(proof), split_list(puzzle_hashes)[2], proven)
    ELSE IsAtom(proof) /\ proof[1] = "b32"

(* C3: in a proof for m > 1 no member outside the proven map is revealed,   *)
(* and a subtree of the members is a pair iff it holds a proven member.     *)
C3_ProofMinimal == MofNProof => MinimalProof(out.proof, Members, Proven)

C3_Witness ==
    /\ MofNProof
    /\ Proven \subseteq Range(Members)
    /\ Len(Members) = 4
    /\ IsAtom(First(out.proof)) /\ ~IsAtom(Rest(out.proof))

ExpectedReveals ==
    {Cons(out.spends_to_prove[k].puzzle_reveal, out.spends_to_prove[k].solution) : k \in Proven}

ExactReveals ==
    /\ Len(RevealNodes(out.proof)) = tree.puzzle.m
    /\ Range(RevealNodes(out.proof)) = ExpectedReveals

(* C4 as stated: every proof returned for m > 1 has exactly m reveal nodes, *)
(* one for each key of the proven map.                                      *)
C4_Original == MofNProof => ExactReveals

(* C4 amended: every proof returned for m > 1 and a proven map whose keys   *)
(* are all member hashes has exactly m reveal nodes, one for each key,      *)
(* each carrying the puzzle reveal and solution supplied for that key.      *)
C4_RevealsExactlyProven == (MofNProof /\ Proven \subseteq Range(Members)) => ExactReveals

C4_Witness ==
    /\ MofNProof
    /\ Proven \subseteq Range(Members)
    /\ tree.puzzle.m = 3 /\ Len(Members) = 4

(* C5: generate_proof fails whenever the size of the proven map differs     *)
(* from m, for m > 1 and m <= 1 alike; a proof is returned only when the    *)
(* sizes agree.                                                             *)
C5_ProofSize ==
    out.op = "generate_proof" =>
        /\ Cardinality(Proven) # tree.puzzle.m => out.proof = ErrorP("AssertionError")
        /\ ~IsErrorP(out.proof) => Cardinality(Proven) = tree.puzzle.m

C5_Witness ==
    /\ out.op = "generate_proof"
    /\ tree.puzzle.m = 1
    /\ Cardinality(Proven) = 2
    /\ out.proof = ErrorP("AssertionError")

C5_WitnessReturned ==
    /\ out.op = "generate_proof"
    /\ tree.puzzle.m = 1
    /\ ~IsErrorP(out.proof)

DistinctMembers(self) == \A mofn \in MofNs(self) : Distinct(merkle_nodes(mofn.members))

(* C6: MofN over two members of the same puzzle hash fails, so every MofN   *)
(* of every tree built, read from a memo or filled in has members of        *)
(* pairwise distinct puzzle hashes.                                         *)
C6_NoDuplicateMembers ==
    /\ DistinctMembers(tree)
    /\ out.op = "MofN" =>
          (~Distinct(merkle_nodes(out.members)) <=> out.result = Error("DuplicateNodes"))
    /\ (out.op \in {"from_memo", "fill_in_unknown_puzzles"} /\ ~IsError(out.result)) =>
          DistinctMembers(out.result)
    /\ (out.op = "from_memo" /\ out.input = "repeated") => out.result = Error("DuplicateNodes")

C6_Witness ==
    /\ out.op = "MofN"
    /\ ~Distinct(merkle_nodes(out.members))
    /\ out.result = Error("DuplicateNodes")

C6_WitnessFillIn ==
    /\ out.op = "fill_in_unknown_puzzles"
    /\ out.result = Error("DuplicateNodes")

(* C7: without restrictions the puzzle hash is the index wrapper curried    *)
(* with the nonce and the inner puzzle hash, and differs from the hash with *)
(* a restriction layer of no morphers and no validators in between.         *)
C7_NoRestrictionLayer ==
    Len(tree.restrictions) = 0 =>
        LET inner == Puzzle_puzzle_hash(tree.puzzle, tree.nonce)
        IN  /\ puzzle_hash(tree) = IndexWrapHash(tree.nonce, inner)
            /\ puzzle_hash(tree) # IndexWrapHash(tree.nonce, RestrictionWrapHash(<<>>, <<>>, inner))

C7_Witness ==
    /\ Len(tree.restrictions) = 0
    /\ tree.nonce = 7
    /\ tree.puzzle.kind = "MofN"
    /\ puzzle_hash(tree) = IndexWrapHash(7, MofN_puzzle_hash(tree.puzzle, 7))

SecondFillIn == out.op = "fill_in_unknown_puzzles" /\ out.again

Unchanged ==
    /\ out.result = out.source
    /\ puzzle_hash(out.result) = puzzle_hash(out.source)

(* C8 as stated: filling in a filled in tree from the same dictionary       *)
(* changes nothing, whatever the dictionary holds.                          *)
C8_Original == SecondFillIn => Unchanged

NoUnknownEntry ==
    \A h \in DOMAIN out.puzzle_dict :
        LET entry == out.puzzle_dict[h]
        IN  \/ entry.kind \in {"Known", "KnownR"}
            \/ entry.kind = "MofN" /\ \A i \in DOMAIN entry.members : AllKnown(entry.members[i])

(* C8 amended: filling in a filled in tree from the same dictionary changes *)
(* nothing when no entry of the dictionary is, or holds, an unknown puzzle  *)
(* or restriction.                                                          *)
C8_FillInIdempotent == (SecondFillIn /\ NoUnknownEntry) => Unchanged

C8_Witness ==
    /\ SecondFillIn /\ NoUnknownEntry
    /\ Cardinality(DOMAIN out.puzzle_dict) >= 2
    /\ ~AllUnknown(out.source)
    /\ out.result = out.source

(* C9: from_memo fails, and returns no tree, on an atom and on a memo whose *)
(* namespace tag is not the spec's, at the top and in a member memo at any  *)
(* depth.                                                                   *)
C9_ForeignMemoRejected ==
    (out.op = "from_memo" /\ out.input = "foreign") => out.result = Error("WrongSpec")

C9_Witness ==
    /\ out.op = "from_memo" /\ out.input = "foreign"
    /\ Len(out.path) = 2
    /\ out.result = Error("WrongSpec")

Replaced == out.op = "replace" /\ out.m_before # out.m_after

(* C10 as stated: over the same members, two MofN of different m have       *)
(* different puzzle hashes.                                                 *)
C10_Original == Replaced => out.hash_before # out.hash_after

(* C10 amended: the puzzle of an MofN is m_of_n.clsp curried with m and the *)
(* merkle root when m > 1 and 1_of_n.clsp curried with the merkle root when *)
(* m = 1; over the same members, two MofN of different m, both at least 1,  *)
(* have different puzzle hashes.                                            *)
C10_PuzzleByM ==
    /\ tree.puzzle.m > 1 =>
          MofN_puzzle(tree.puzzle, tree.nonce)
              = Curry(MofN_MOD, <<IntAtom(tree.puzzle.m), B32(calculate_root(Members))>>)
    /\ tree.puzzle.m = 1 =>
          MofN_puzzle(tree.puzzle, tree.nonce) = Curry(OneOfN_MOD, <<B32(calculate_root(Members))>>)
    /\ (Replaced /\ out.m_before >= 1 /\ out.m_after >= 1) => out.hash_before # out.hash_after

C10_Witness ==
    /\ Replaced
    /\ out.m_before = 1 /\ out.m_after = 2
    /\ out.hash_before # out.hash_after

FilledIn == out.op = "fill_in_unknown_puzzles"

(* what fill_in_unknown_puzzles is to do to the tree `source`: the same     *)
(* nonce, restrictions and members position by position, an unknown puzzle  *)
(* or restriction whose hash is a key replaced by the entry under that key, *)
(* anything else kept                                                       *)
RECURSIVE FilledFrom(_, _, _)
FilledFrom(result, source, puzzle_dict) ==
    /\ result.nonce = source.nonce
    /\ Len(result.restrictions) = Len(source.restrictions)
    /\ \A i \in DOMAIN source.restrictions :
          LET r == source.restrictions[i]
          IN  IF r.kind = "UnknownR" /\ r.hint.puzhash \in DOMAIN puzzle_dict
              THEN result.restrictions[i] = puzzle_dict[r.hint.puzhash]
              ELSE result.restrictions[i] = r
    /\ IF source.puzzle.kind = "Unknown"
       THEN IF source.puzzle.hint.puzhash \in DOMAIN puzzle_dict
            THEN result.puzzle = puzzle_dict[source.puzzle.hint.puzhash]
            ELSE result.puzzle = source.puzzle
       ELSE IF source.puzzle.kind = "MofN"
       THEN /\ result.puzzle.kind = "MofN"
            /\ result.puzzle.m = source.puzzle.m
            /\ Len(result.puzzle.members) = Len(source.puzzle.members)
            /\ \A i \in DOMAIN source.puzzle.members :
                  FilledFrom(result.puzzle.members[i], source.puzzle.members[i], puzzle_dict)
       ELSE result.puzzle = source.puzzle

(* C11 as stated: fill_in_unknown_puzzles returns, for every dictionary, a  *)
(* tree with the nonce, restrictions, m and members of the original in      *)
(* place, the unknown leaves under a key replaced and all else kept.        *)
C11_Original ==
    FilledIn => (~IsError(out.result) /\ FilledFrom(out.result, out.source, out.puzzle_dict))

(* C11 amended: whenever fill_in_unknown_puzzles returns, the tree returned *)
(* has the nonce, restrictions, m and members of the original in place, the *)
(* unknown leaves under a key replaced by the entry and all else kept; it   *)
(* raises only when the members of an MofN come to share a puzzle hash.     *)
C11_FillInFrame ==
    FilledIn =>
        IF IsError(out.result)
        THEN /\ out.result = Error("DuplicateNodes")
             /\ tree = out.source
        ELSE /\ FilledFrom(out.result, out.source, out.puzzle_dict)
             /\ tree = out.result

C11_Witness ==
    /\ FilledIn /\ ~IsError(out.result)
    /\ Depth(out.source) = 2
    /\ out.result # out.source
    /\ ~AllKnown(out.result)
    /\ ~AllUnknown(out.result)
    /\ FilledFrom(out.result, out.source, out.puzzle_dict)

RECURSIVE UnknownLeaves(_)
UnknownLeaves(self) ==
    {self.restrictions[i] :
        i \in {j \in DOMAIN self.restrictions : self.restrictions[j].kind = "UnknownR"}}
    \cup (IF self.puzzle.kind = "Unknown" THEN {self.puzzle}
          ELSE IF self.puzzle.kind = "MofN"
          THEN UNION {UnknownLeaves(self.puzzle.members[i]) : i \in DOMAIN self.puzzle.members}
          ELSE {})

Collected == out.op = "unknown_puzzles"

(* C12: the keys of unknown_puzzles are the hashes of the unknown puzzles   *)
(* and unknown restrictions of the tree at any depth, each key maps to an   *)
(* unknown leaf of the tree of that hash, and under a hash shared with an   *)
(* unknown puzzle the node's own restriction, written last, is the entry.   *)
C12_UnknownPuzzles ==
    Collected =>
        /\ DOMAIN out.result = {leaf.hint.puzhash : leaf \in UnknownLeaves(out.source)}
        /\ \A h \in DOMAIN out.result :
              /\ out.result[h] \in UnknownLeaves(out.source)
              /\ out.result[h].hint.puzhash = h
        /\ \A i \in DOMAIN out.source.restrictions :
              LET r == out.source.restrictions[i]
              IN  r.kind = "UnknownR" => out.result[r.hint.puzhash].kind = "UnknownR"

C12_Witness ==
    /\ Collected
    /\ out.source.puzzle.kind = "Unknown"
    /\ \E i \in DOMAIN out.source.restrictions :
          /\ out.source.restrictions[i].kind = "UnknownR"
          /\ out.source.restrictions[i].hint.puzhash = out.source.puzzle.hint.puzhash
    /\ out.result[out.source.puzzle.hint.puzhash].kind = "UnknownR"
    /\ Cardinality(DOMAIN out.result) < Cardinality(UnknownLeaves(out.source))

C12_WitnessNested ==
    /\ Collected
    /\ out.source.puzzle.kind = "MofN"
    /\ \E i \in DOMAIN out.source.restrictions : out.source.restrictions[i].kind = "UnknownR"
    /\ Cardinality(DOMAIN out.result) >= 2
    /\ ~AllUnknown(out.source)

OwnKnown(self) ==
    /\ self.puzzle.kind \in {"Known", "MofN"}
    /\ \A i \in DOMAIN self.restrictions : self.restrictions[i].kind = "KnownR"

Revealed == out.op = "puzzle_reveal"

(* C13: for a tree whose own puzzle is known or an MofN and whose own       *)
(* restrictions are known, puzzle_reveal returns a program and its tree     *)
(* hash is puzzle_hash(); the program is the index wrapper curried with the *)
(* nonce and, under restrictions, restrictions.clsp curried with the        *)
(* morphers, the validators (each in the order of the restrictions) and the *)
(* inner puzzle.                                                            *)
C13_RevealHashesToPuzzleHash ==
    (Revealed /\ OwnKnown(out.source)) =>
        LET self == out.source
            P(restriction) == Known_puzzle(restriction, self.nonce)
            inner == IF self.puzzle.kind = "MofN" THEN MofN_puzzle(self.puzzle, self.nonce)
                     ELSE Known_puzzle(self.puzzle, self.nonce)
            morphers == MapSeq(P, SelectSeq(self.restrictions, IsMorpher))
            validators == MapSeq(P, SelectSeq(self.restrictions, IsValidator))
        IN  /\ ~IsErrorP(out.result)
            /\ TreeHash(out.result) = puzzle_hash(self)
            /\ out.result =
                   Curry(INDEX_WRAPPER,
                         <<IntAtom(self.nonce),
                           IF self.restrictions = <<>> THEN inner
                           ELSE Curry(RESTRICTION_MOD,
                                      <<ListP(morphers), ListP(validators), inner>>)>>)

C13_Witness ==
    /\ Revealed /\ OwnKnown(out.source)
    /\ out.source.puzzle.kind = "MofN"
    /\ ~AllKnown(out.source)
    /\ Len(out.source.restrictions) > 0
    /\ TreeHash(out.result) = puzzle_hash(out.source)

C13_WitnessOrder ==
    /\ Revealed /\ OwnKnown(out.source)
    /\ \E i, j \in DOMAIN out.source.restrictions :
          /\ i < j
          /\ ~out.source.restrictions[i].mnv
          /\ out.source.restrictions[j].mnv
    /\ TreeHash(out.result) = puzzle_hash(out.source)

C13_WitnessUnknown ==
    /\ Revealed /\ ~OwnKnown(out.source)
    /\ out.result = ErrorP("NotImplementedError")

(* every entry that fill_in_unknown_puzzles inserts into the tree has, at   *)
(* the nonce of the node it is inserted in, the puzzle hash it is stored    *)
(* under, and a restriction entry is a morpher iff the one it replaces is   *)
RECURSIVE EntriesMatch(_, _)
EntriesMatch(self, puzzle_dict) ==
    /\ \A i \in DOMAIN self.restrictions :
          LET r == self.restrictions[i]
          IN  (r.kind = "UnknownR" /\ r.hint.puzhash \in DOMAIN puzzle_dict) =>
                 LET entry == puzzle_dict[r.hint.puzhash]
                 IN  /\ entry.kind \in {"KnownR", "UnknownR"}
                     /\ Restriction_puzzle_hash(entry, self.nonce) = r.hint.puzhash
                     /\ morpher_not_validator(entry) = r.hint.mnv
    /\ (self.puzzle.kind = "Unknown" /\ self.puzzle.hint.puzhash \in DOMAIN puzzle_dict) =>
          LET entry == puzzle_dict[self.puzzle.hint.puzhash]
          IN  /\ entry.kind \in {"Known", "Unknown", "MofN"}
              /\ Puzzle_puzzle_hash(entry, self.nonce) = self.puzzle.hint.puzhash
    /\ self.puzzle.kind = "MofN" =>
          \A i \in DOMAIN self.puzzle.members : EntriesMatch(self.puzzle.members[i], puzzle_dict)

RECURSIVE SameHashes(_, _)
SameHashes(result, source) ==
    /\ puzzle_hash(result) = puzzle_hash(source)
    /\ source.puzzle.kind = "MofN" =>
          /\ result.puzzle.kind = "MofN"
          /\ Len(result.puzzle.members) = Len(source.puzzle.members)
          /\ \A i \in DOMAIN source.puzzle.members :
                SameHashes(result.puzzle.members[i], source.puzzle.members[i])

(* C14: when every entry inserted has the puzzle hash of its key at the     *)
(* nonce of the node it goes into and restriction entries keep the morpher  *)
(* flag, fill_in_unknown_puzzles returns a tree and its puzzle hash is the  *)
(* original's, at the root and at every member at any depth.                *)
C14_FillInKeepsHash ==
    (FilledIn /\ EntriesMatch(out.source, out.puzzle_dict)) =>
        /\ ~IsError(out.result)
        /\ SameHashes(out.result, out.source)

C14_Witness ==
    /\ FilledIn /\ ~out.again
    /\ EntriesMatch(out.source, out.puzzle_dict)
    /\ Depth(out.source) >= 1
    /\ out.source.nonce = 7
    /\ AllKnown(out.result)
    /\ \E i \in DOMAIN out.source.puzzle.members :
          Len(out.source.puzzle.members[i].restrictions) > 0
    /\ puzzle_hash(out.result) = puzzle_hash(out.source)

C14_WitnessMismatch ==
    /\ FilledIn
    /\ ~EntriesMatch(out.source, out.puzzle_dict)
    /\ ~IsError(out.result)
    /\ puzzle_hash(out.result) # puzzle_hash(out.source)

====
